---- MODULE Spec2Model ----
(***************************************************************************)
(* The client-side processing pipeline of Clipso (Processing.tsx): one     *)
(* ProcessingPage instance per mount, and one poll chain per successful    *)
(* pass through the guard of initiateProcessing.  A chain is the closure   *)
(* created by one initiateProcessing call: its local counters `attempts`   *)
(* and `finalVideoAttempts`, the request it is awaiting or the timer it    *)
(* has scheduled.  The backend is the environment: every awaited request   *)
(* resolves or rejects, every setTimeout fires, in any order across chains.*)
(* The Preview page (Preview.tsx) that the pipeline navigates to, or that  *)
(* a shared link opens, is one record: its useState values, the look-up it *)
(* is awaiting and the link it has copied.                                 *)
(***************************************************************************)
EXTENDS Integers, Sequences, FiniteSets, TLC

\* ---------------------------------------------------------------- constants
\* Poll budgets of the two status loops.
maxAttempts == 20
maxFinalVideoAttempts == 30
\* setTimeout(checkTranscriptStatus, 3000), setTimeout(checkFinalVideoStatus, 3000)
PollDelayMs == 3000
\* JSON.stringify(transcript).slice(0, 100)
JsonSliceLen == 100

\* ------------------------------------------------------------------- bounds
\* Longest transcript text from which a B-roll prompt is derived.
MaxTextLen == 102
\* Poll chains (initiateProcessing closures) followed at once.
MaxChains == 2
\* Times the Processing page is mounted.
MaxMounts == 2
\* Faulty answers (rejections, unusable bodies) of the backend in the
\* specifications that follow more than one chain.
MaxFaults == 2
\* setupCamera calls made by one Record page.
MaxSetups == 3

\* An allowance of faulty answers no single chain can use up: one per
\* one-shot request and one per poll of either loop.
Unlimited == maxAttempts + maxFinalVideoAttempts + 3

VARIABLES
    hasFilename,          \* location.state carries a filename
    location,             \* current route
    mounted,              \* a ProcessingPage instance is mounted
    inst,                 \* number of the instance mounted last
    isProcessingStarted,  \* useState of the mounted instance
    isBrollProcessing,    \* useState of the mounted instance
    currentStepIndex,     \* useState of the mounted instance
    steps,                \* useState of the mounted instance
    overallProgress,      \* useState of the mounted instance
    toasts,               \* titles of the toasts shown
    previewNav,           \* what the last navigate('/preview/..') carried
    chains,               \* the initiateProcessing closures created so far
    faultsLeft,           \* faulty answers the backend may still produce
    preview,              \* the PreviewPage instance shown, if any
    derivation,           \* a transcript and the B-roll prompt derived from it
    upload,               \* the upload page in use, if any
    record                \* the RecordPage instance in use, if any

vars == << hasFilename, location, mounted, inst, isProcessingStarted,
           isBrollProcessing, currentStepIndex, steps, overallProgress,
           toasts, previewNav, chains, faultsLeft, preview, derivation,
           upload, record >>

StepIds == 0 .. 4
Upload == 0
Transcription == 1
Captions == 2
BRoll == 3
Rendering == 4

Min(a, b) == IF a <= b THEN a ELSE b

Step(st, pr) == [status |-> st, progress |-> pr]

\* useState initial value of steps.
InitialSteps ==
    [i \in StepIds |->
        IF i = Upload THEN Step("completed", 100)
        ELSE IF i = Transcription THEN Step("processing", 0)
        ELSE Step("waiting", 0)]

\* Math.round(total / steps.length); the totals are integers, so the
\* quotient has one decimal and Math.round rounds .5 upwards.
OverallProgressOf(s) ==
    LET total == s[0].progress + s[1].progress + s[2].progress
                 + s[3].progress + s[4].progress
    IN (2 * total + 5) \div 10

NoNav == [id |-> "none", hasUrl |-> FALSE]

NoRequests == [captions |-> 0, transcript |-> 0, broll |-> 0,
               finalVideo |-> 0, finalUrl |-> 0]

\* The closure created by one initiateProcessing call that passed its guard:
\* generateCaptions has been requested and is awaited.
NewChain(i, brollFlag) ==
    [ pc |-> "awaitCaptions",
      inst |-> i,
      cIsBroll |-> brollFlag,
      attempts |-> 0,
      finalVideoAttempts |-> 0,
      req |-> [NoRequests EXCEPT !.captions = 1],
      captionsOk |-> FALSE,
      gotTranscript |-> FALSE,
      broll |-> "none",
      gotFinalUrl |-> FALSE,
      outcome |-> "running",
      errAt |-> "none",
      err |-> "none",
      lastPollMs |-> 0,
      prevPollMs |-> 0 ]

\* What a rejected request carries: the Error made from the response's
\* detail, for a failure that may pass (timeout, not ready yet, rate limit)
\* or one that will not (malformed or unsupported input).
ErrorDetails == {"transient", "permanent"}

\* catch (e): the chain holds the error of request `at` until its next step.
Caught(ch, at, err) == [ch EXCEPT !.errAt = at, !.err = err]

\* The catch block has been left.
Cleared(ch) == [ch EXCEPT !.errAt = "none", !.err = "none"]

\* if (isProcessingStarted) return;  -- read from the closure of the render
\* the effect belongs to.
InitiateSkips(closureStarted) == closureStarted

\* One run of the processing effect for a render whose closure holds
\* closureStarted / closureBroll.
InitiateProcessing(chs, closureStarted, closureBroll, i) ==
    IF InitiateSkips(closureStarted) THEN chs
    ELSE Append(chs, NewChain(i, closureBroll))


\* ------------------------------------------------------ the B-roll prompt
\* No transcript at hand.  A transcript has a shape ("string": the body is
\* a string; "text": an object with a non-empty text; "noText": an object
\* without one) and a text: the string, the text field, or the JSON of the
\* object.  Texts are sequences of characters.
NoDerivation ==
    [ shape |-> "none", text |-> << >>, derived |-> FALSE,
      template |-> "", excerpt |-> << >> ]

\* No upload page is in use.  page is "Upload", "CreateVideo" or "Record";
\* selected: a file is selected (a clip is recorded); response: what
\* uploadVideo returned, once it has; navigated: the filename passed to
\* /processing ("filename", or "undefined" when the response had none).
NoResponse == [kind |-> "none", filename |-> FALSE, success |-> FALSE]

NoUpload ==
    [ page |-> "none",
      selected |-> FALSE,
      isUploading |-> FALSE,
      pc |-> "idle",
      response |-> NoResponse,
      toasts |-> {},
      navigated |-> "none" ]

\* No RecordPage is in use.  Camera streams are numbered in the order
\* getUserMedia grants them, 0 is null; live[s] tells whether the tracks of
\* stream s are running.  calls are the setupCamera calls awaiting
\* getUserMedia, each with the stream state its closure holds; denied
\* counts the calls getUserMedia rejected; timer is the
\* debounce timeout, with the stream state of the render that set it.
NoRecord ==
    [ mounted |-> FALSE,
      unmounted |-> FALSE,
      stream |-> 0,
      srcObject |-> 0,
      live |-> << >>,
      calls |-> << >>,
      denied |-> 0,
      timer |-> [pending |-> FALSE, stream |-> 0],
      isRecording |-> FALSE,
      isPaused |-> FALSE,
      isPreviewing |-> FALSE,
      countdown |-> 0,
      recorder |-> [state |-> "none", stream |-> 0],
      stopping |-> FALSE,
      recordedBlob |-> FALSE,
      toasts |-> {} ]

\* What the pages other than Processing and Preview hold.
OtherPages == << derivation, upload, record >>


\* ---------------------------------------------------------- the Preview page
\* No PreviewPage is shown.  Ids (urlId, shareId, sharedLink) are "none",
\* "share_id" (the id the backend assigned), "filename" (the filename
\* without its extension) or "unknown" (an id the backend has no video
\* for); filename is "none", "uploaded" (the filename of the upload) or
\* "guessed" (the id of the URL with .webm appended).
NoPreview ==
    [ open |-> FALSE,
      urlId |-> "none",
      filename |-> "none",
      finalVideoUrl |-> FALSE,
      videoUrl |-> "none",
      isProcessedVideo |-> FALSE,
      isLoading |-> FALSE,
      shareId |-> "none",
      pc |-> "idle",
      lookup |-> "none",
      toasts |-> {},
      sharedLink |-> "none" ]

\* Faulty variant: the uploaded file is preferred to the final video.
LoadVideoPrefersUpload(p) ==
    IF p.filename # "none"
    THEN [p EXCEPT !.videoUrl = "uploads",
                   !.toasts = @ \cup {"Using original video"}]
    ELSE IF p.finalVideoUrl
    THEN [p EXCEPT !.videoUrl = "final", !.isProcessedVideo = TRUE]
    ELSE p

\* Second effect: the final video if there is one, else the uploaded file
\* under /api/uploads/<filename>, else an error unless a look-up is under
\* way or an id is in the URL.
LoadVideo(p) ==
    IF p.finalVideoUrl
    THEN [p EXCEPT !.videoUrl = "final", !.isProcessedVideo = TRUE]
    ELSE IF p.filename # "none"
    THEN [p EXCEPT !.videoUrl = "uploads",
                   !.toasts = @ \cup {"Using original video"}]
    ELSE IF ~p.isLoading /\ p.urlId = "none"
    THEN [p EXCEPT !.toasts = @ \cup {"Error"}]
    ELSE p

\* First effect: an id in the URL and no filename in location.state start
\* the look-up by share_id.
LookUpVideo(p) ==
    IF p.urlId # "none" /\ p.filename = "none"
    THEN [p EXCEPT !.isLoading = TRUE, !.pc = "awaitVideo",
                   !.lookup = "pending"]
    ELSE p

\* First render of PreviewPage for /preview/<urlId> with the given
\* location.state, and its mount effects; the second effect reads the first
\* render, in which isLoading is false.
PreviewOpened(urlId, filename, hasUrl) ==
    LET first == [NoPreview EXCEPT !.open = TRUE,
                                   !.urlId = urlId,
                                   !.shareId = urlId,
                                   !.filename = filename,
                                   !.finalVideoUrl = hasUrl]
    IN LookUpVideo(LoadVideo(first))


\* ------------------------------------------------------------ state updates
Live(ch) == mounted /\ ch.inst = inst

\* A state update of a mounted instance renders it again and runs its
\* effects: the processing effect (its dependencies include steps, which
\* every setSteps replaces) and the overall-progress effect.  Updates made
\* by the closures of an instance that is no longer mounted change nothing.
Render(live, newChains, newSteps, newIndex, newBroll) ==
    /\ steps' = IF live THEN newSteps ELSE steps
    /\ currentStepIndex' = IF live THEN newIndex ELSE currentStepIndex
    /\ isBrollProcessing' = IF live THEN newBroll ELSE isBrollProcessing
    /\ overallProgress' = IF live THEN OverallProgressOf(newSteps)
                          ELSE overallProgress
    /\ chains' = IF live /\ hasFilename
                 THEN InitiateProcessing(newChains, isProcessingStarted,
                                         newBroll, inst)
                 ELSE newChains
    /\ isProcessingStarted' =
           IF live /\ hasFilename /\ ~InitiateSkips(isProcessingStarted)
           THEN TRUE ELSE isProcessingStarted
    /\ Len(chains') <= MaxChains

NoRender(newChains) ==
    /\ chains' = newChains
    /\ UNCHANGED << steps, currentStepIndex, isBrollProcessing,
                    overallProgress, isProcessingStarted >>

\* navigate(...): the route changes and the Processing page is unmounted.
Navigate(target, nav) ==
    /\ location' = target
    /\ mounted' = FALSE
    /\ previewNav' = nav
    /\ preview' = IF target = "preview"
                  THEN PreviewOpened(nav.id, "uploaded", nav.hasUrl)
                  ELSE NoPreview
    /\ UNCHANGED OtherPages

Stay == UNCHANGED << location, mounted, previewNav, preview, OtherPages >>

\* The backend rejects a request or answers with an unusable body.
Rejects ==
    /\ faultsLeft > 0
    /\ faultsLeft' = faultsLeft - 1

\* ------------------------------------------------------------ the page
InitPage ==
    /\ location = "processing"
    /\ mounted = FALSE
    /\ inst = 0
    /\ isProcessingStarted = FALSE
    /\ isBrollProcessing = FALSE
    /\ currentStepIndex = 0
    /\ steps = InitialSteps
    /\ overallProgress = 0
    /\ toasts = {}
    /\ previewNav = NoNav
    /\ chains = << >>
    /\ preview = NoPreview

\* No other page is in use.
NoOtherPages ==
    /\ derivation = NoDerivation
    /\ upload = NoUpload
    /\ record = NoRecord

\* One visit of /processing, reached from an upload page or directly.
Init ==
    /\ hasFilename \in BOOLEAN
    /\ faultsLeft = Unlimited
    /\ InitPage
    /\ NoOtherPages

\* First render of a new instance and its mount effects.
MountState(runs) ==
    /\ ~mounted
    /\ location = "processing"
    /\ inst < MaxMounts
    /\ inst' = inst + 1
    /\ currentStepIndex' = 0
    /\ isBrollProcessing' = FALSE
    /\ steps' = InitialSteps
    /\ overallProgress' = OverallProgressOf(InitialSteps)
    /\ UNCHANGED << hasFilename, faultsLeft >>
    /\ IF ~hasFilename
       THEN /\ toasts' = toasts \cup {"Processing error"}
            /\ Navigate("create", previewNav)
            /\ isProcessingStarted' = FALSE
            /\ chains' = chains
       ELSE /\ mounted' = TRUE
            /\ isProcessingStarted' = ~InitiateSkips(FALSE)
            /\ UNCHANGED << location, previewNav, toasts, preview,
                            OtherPages >>
            \* every run of the mount effect reads the first render's
            \* closure, in which isProcessingStarted is false
            /\ chains' = IF runs = 1
                         THEN InitiateProcessing(chains, FALSE, FALSE,
                                                 inst + 1)
                         ELSE InitiateProcessing(
                                  InitiateProcessing(chains, FALSE, FALSE,
                                                     inst + 1),
                                  FALSE, FALSE, inst + 1)
            /\ Len(chains') <= MaxChains

Mount == MountState(1)


\* ------------------------------------------------------ checkTranscriptStatus
\* Faulty variant: the budget test is off by one.
BudgetUsedUpLate(n, max) == n > max

\* if (attempts >= maxAttempts) / if (finalVideoAttempts >= maxFinalVideoAttempts)
BudgetUsedUp(n, max) == n >= max

\* Faulty variant: the progress of the transcription step without its cap.
TranscriptProgressUncapped(attempts) == 10 + attempts * 5

\* Math.min(10 + (attempts * 5), 95)
TranscriptProgress(attempts) == Min(10 + attempts * 5, 95)

\* Faulty variant: the progress of the rendering step without the 10 it
\* starts from.
FinalVideoProgressFromZero(n) == Min((n * 85) \div maxFinalVideoAttempts, 95)

\* Math.min(10 + Math.floor((finalVideoAttempts / maxFinalVideoAttempts) * 85), 95)
FinalVideoProgress(n) == Min(10 + ((n * 85) \div maxFinalVideoAttempts), 95)

\* "Skip ahead to rendering with defaults"
SkipAheadSteps(s) ==
    [s EXCEPT ![Transcription] = Step("completed", 100),
              ![Captions] = Step("completed", 100),
              ![BRoll] = Step("completed", 100),
              ![Rendering] = Step("processing", 0)]

\* Steps after a transcript came back.
TranscriptReadySteps(s) ==
    [s EXCEPT ![Transcription] = Step("completed", 100),
              ![Captions] = Step("completed", 100),
              ![BRoll] = Step("processing", 0)]

\* The catch of checkTranscriptStatus: progress from attempts, next check
\* in 3000 ms.
TranscriptRetrySteps(s, attempts) ==
    [s EXCEPT ![Transcription].progress = TranscriptProgress(attempts)]

\* Steps after getBRoll resolved / rejected: rendering starts at 10%.
BRollDoneSteps(s, status) ==
    [s EXCEPT ![BRoll] = Step(status, 100),
              ![Rendering] = Step("processing", 10)]

\* Steps when the rendering step is set to status at 100%.
RenderingEndSteps(s, status) ==
    [s EXCEPT ![Rendering] = Step(status, 100)]

\* The catch of checkFinalVideoStatus: progress from finalVideoAttempts.
FinalVideoRetrySteps(s, n) ==
    [s EXCEPT ![Rendering].progress = FinalVideoProgress(n)]

\* Faulty variant: the toast shows the message of the error.
RejectionToastsLeak(at, err) ==
    IF at \in {"captions", "finalVideo"} THEN {err} ELSE {}

\* The toast titles a catch block adds for a rejection of request `at` with
\* error err: the toasts are literals, the error goes to the console only.
RejectionToasts(at, err) ==
    IF at = "captions" THEN {"Processing error"}
    ELSE IF at = "finalVideo" THEN {"Rendering Error"}
    ELSE {}

\* The steps a catch block sets for a rejection of request `at` of chain ch
\* with error err.
RejectionSteps(s, ch, at, err) ==
    IF at = "transcript" THEN TranscriptRetrySteps(s, ch.attempts)
    ELSE IF at = "broll" THEN BRollDoneSteps(s, "error")
    ELSE IF at = "finalVideo" THEN RenderingEndSteps(s, "error")
    ELSE IF at = "finalUrl" THEN FinalVideoRetrySteps(s, ch.finalVideoAttempts)
    ELSE s

\* Faulty variant: each retry waits twice as long as the one before, up to
\* a minute.
PollDelayDoubles(prev) == IF prev = 0 THEN PollDelayMs ELSE Min(2 * prev, 60000)

\* The delay of the next check, given the delay of the check before it:
\* setTimeout(..., 3000) whatever went before.
PollDelay(prev) == PollDelayMs

\* The chain with another check scheduled, its timer pending at pc.
Scheduled(ch, pc) ==
    [ch EXCEPT !.pc = pc,
               !.prevPollMs = ch.lastPollMs,
               !.lastPollMs = PollDelay(ch.lastPollMs)]

\* Faulty variant: the skip to rendering really starts the rendering.
TranscriptGivenUpRenders(ch) ==
    [ch EXCEPT !.pc = "awaitFinalVideo", !.req.finalVideo = @ + 1]

\* The chain after the transcript poll budget is used up: the function
\* returns, nothing is awaited and no timer is scheduled.
TranscriptGivenUp(ch) ==
    [ch EXCEPT !.pc = "ended", !.outcome = "transcriptExhausted"]

\* attempts++ and the getTranscript request.
TranscriptPolled(ch) ==
    [ch EXCEPT !.pc = "awaitTranscript",
               !.attempts = @ + 1,
               !.req.transcript = @ + 1]

\* One call of checkTranscriptStatus by chain c, up to its first await.
CheckTranscriptStatus(c, ch) ==
    IF BudgetUsedUp(ch.attempts, maxAttempts)
    THEN /\ toasts' = toasts \cup {"Transcript Processing Warning"}
         /\ Render(Live(ch), [chains EXCEPT ![c] = TranscriptGivenUp(ch)],
                   SkipAheadSteps(steps), 4, isBrollProcessing)
    ELSE /\ toasts' = toasts
         /\ NoRender([chains EXCEPT ![c] = TranscriptPolled(ch)])

\* await generateCaptions(filename) resolves: attempts = 0 and the first check.
GenerateCaptionsOk(c) ==
    /\ chains[c].pc = "awaitCaptions"
    /\ CheckTranscriptStatus(c, [chains[c] EXCEPT !.captionsOk = TRUE,
                                                  !.attempts = 0])
    /\ Stay
    /\ UNCHANGED << hasFilename, inst, faultsLeft >>

\* What the transcript endpoint's JSON body can be: a value the prompt
\* derivation accepts (a string, an object with a string text, an object
\* without text) or one on which it throws (null, a text that is no string).
TranscriptKinds == {"usable", "unusable"}

\* Faulty variant: a rejected poll goes on to B-roll with a default prompt.
TranscriptNotReadyGoesOn(ch) ==
    [ch EXCEPT !.pc = "awaitBRoll", !.req.broll = @ + 1]

\* Faulty variant: a rejection that will not pass ends the polling.
TranscriptNotReadyClassifies(ch) ==
    IF ch.err = "permanent"
    THEN [ch EXCEPT !.pc = "ended", !.outcome = "transcriptFailed"]
    ELSE Scheduled(ch, "timerTranscript")

\* The chain after the catch of checkTranscriptStatus, whatever was caught:
\* setTimeout(checkTranscriptStatus, 3000).
TranscriptNotReady(ch) == Scheduled(ch, "timerTranscript")

\* await getTranscript(filename) resolves.
GetTranscriptOk(c, kind) ==
    LET ch == chains[c]
        got == [ch EXCEPT !.gotTranscript = TRUE]
        ready == TranscriptReadySteps(steps)
    IN
    /\ ch.pc = "awaitTranscript"
    /\ toasts' = toasts
    /\ IF kind = "unusable" THEN Rejects ELSE UNCHANGED faultsLeft
    /\ IF ch.cIsBroll
       THEN \* "B-roll processing already started, skipping duplicate call"
            Render(Live(ch),
                   [chains EXCEPT ![c] = [got EXCEPT !.pc = "ended",
                                          !.outcome = "brollSkipped"]],
                   ready, 3, isBrollProcessing)
       ELSE IF kind = "unusable"
       THEN \* the derivation of the prompt throws into the outer catch
            Render(Live(ch),
                   [chains EXCEPT ![c] =
                       TranscriptNotReady(Caught(got, "derivation", "TypeError"))],
                   TranscriptRetrySteps(ready, ch.attempts), 3, TRUE)
       ELSE Render(Live(ch),
                   [chains EXCEPT ![c] = [got EXCEPT !.pc = "awaitBRoll",
                                          !.req.broll = @ + 1]],
                   ready, 3, TRUE)
    /\ Stay
    /\ UNCHANGED << hasFilename, inst >>

\* setTimeout(checkTranscriptStatus, 3000) fires.
TranscriptTimer(c) ==
    /\ chains[c].pc = "timerTranscript"
    /\ CheckTranscriptStatus(c, Cleared(chains[c]))
    /\ Stay
    /\ UNCHANGED << hasFilename, inst, faultsLeft >>


\* ---------------------------------------------------------------- B-roll
\* Faulty variant: a rejected getBRoll ends the run.
AfterBRollFailureStops(ch, result) ==
    IF result = "failed"
    THEN [ch EXCEPT !.broll = result, !.pc = "ended", !.outcome = "brollFailed"]
    ELSE [ch EXCEPT !.broll = result, !.pc = "awaitFinalVideo",
                    !.req.finalVideo = @ + 1]

\* Faulty variant: a rejected getBRoll is requested again, three requests
\* at most, before the run goes on without B-roll.
AfterBRollRetries(ch, result) ==
    IF result = "failed" /\ ch.req.broll < 3
    THEN [ch EXCEPT !.pc = "awaitBRoll", !.req.broll = @ + 1]
    ELSE [ch EXCEPT !.broll = result, !.pc = "awaitFinalVideo",
                    !.req.finalVideo = @ + 1]

\* The chain once getBRoll has returned with `result` ("ok" or "failed"):
\* both branches go on to request generateFinalVideo.
AfterBRoll(ch, result) ==
    [ch EXCEPT !.broll = result,
               !.pc = "awaitFinalVideo",
               !.req.finalVideo = @ + 1]

\* await getBRoll(brollPrompt) resolves.
GetBRollOk(c) ==
    LET ch == chains[c] IN
    /\ ch.pc = "awaitBRoll"
    /\ toasts' = toasts
    /\ Render(Live(ch), [chains EXCEPT ![c] = AfterBRoll(ch, "ok")],
              BRollDoneSteps(steps, "completed"), 4, isBrollProcessing)
    /\ Stay
    /\ UNCHANGED << hasFilename, inst, faultsLeft >>

\* ------------------------------------------------------ checkFinalVideoStatus
\* getShareableId(filename): an id made from the filename.
FilenameNav == [id |-> "filename", hasUrl |-> FALSE]

\* finalVideoData.share_id || getShareableId(filename), with final_video_url.
FinalVideoNav(hasShareId) ==
    [id |-> IF hasShareId THEN "share_id" ELSE "filename", hasUrl |-> TRUE]

\* The chain after the final-video poll budget is used up.
FinalVideoGivenUp(ch) ==
    [ch EXCEPT !.pc = "ended", !.outcome = "finalVideoExhausted"]

\* finalVideoAttempts++ and the getFinalVideoUrl request.
FinalVideoPolled(ch) ==
    [ch EXCEPT !.pc = "awaitFinalUrl",
               !.finalVideoAttempts = @ + 1,
               !.req.finalUrl = @ + 1]

\* One call of checkFinalVideoStatus by chain c, up to its first await.
CheckFinalVideoStatus(c, ch) ==
    IF BudgetUsedUp(ch.finalVideoAttempts, maxFinalVideoAttempts)
    THEN /\ toasts' = toasts \cup {"Rendering Warning"}
         /\ Render(Live(ch), [chains EXCEPT ![c] = FinalVideoGivenUp(ch)],
                   RenderingEndSteps(steps, "completed"), currentStepIndex,
                   isBrollProcessing)
         /\ Navigate("preview", FilenameNav)
    ELSE /\ toasts' = toasts
         /\ NoRender([chains EXCEPT ![c] = FinalVideoPolled(ch)])
         /\ Stay

\* await generateFinalVideo(filename) resolves: finalVideoAttempts = 0 and
\* the first check.
GenerateFinalVideoOk(c) ==
    /\ chains[c].pc = "awaitFinalVideo"
    /\ CheckFinalVideoStatus(c, [Cleared(chains[c]) EXCEPT
                                     !.finalVideoAttempts = 0,
                                     !.lastPollMs = 0, !.prevPollMs = 0])
    /\ UNCHANGED << hasFilename, inst, faultsLeft >>

\* await getFinalVideoUrl(filename) resolves: navigation after 1000 ms.
GetFinalVideoUrlOk(c, hasShareId) ==
    LET ch == chains[c] IN
    /\ ch.pc = "awaitFinalUrl"
    /\ toasts' = toasts
    /\ Render(Live(ch),
              [chains EXCEPT ![c] = [ch EXCEPT !.pc = "timerNavigate",
                                     !.gotFinalUrl = TRUE,
                                     !.outcome = IF hasShareId
                                                 THEN "finalVideoReady"
                                                 ELSE "finalVideoReadyNoShareId"]],
              RenderingEndSteps(steps, "completed"), currentStepIndex,
              isBrollProcessing)
    /\ Stay
    /\ UNCHANGED << hasFilename, inst, faultsLeft >>

\* The chain after the catch of checkFinalVideoStatus, whatever was caught:
\* setTimeout(checkFinalVideoStatus, 3000).
FinalVideoNotReady(ch) == Scheduled(ch, "timerFinalUrl")

\* setTimeout(checkFinalVideoStatus, 3000) fires.
FinalVideoTimer(c) ==
    /\ chains[c].pc = "timerFinalUrl"
    /\ CheckFinalVideoStatus(c, Cleared(chains[c]))
    /\ UNCHANGED << hasFilename, inst, faultsLeft >>

\* The setTimeout that navigates to /preview/<videoId> fires.
NavigateTimer(c) ==
    LET ch == chains[c] IN
    /\ ch.pc = "timerNavigate"
    /\ NoRender([chains EXCEPT ![c] = [Cleared(ch) EXCEPT !.pc = "ended"]])
    /\ Navigate("preview",
                IF ch.outcome = "finalVideoRejected" THEN FilenameNav
                ELSE FinalVideoNav(ch.outcome = "finalVideoReady"))
    /\ UNCHANGED << hasFilename, inst, faultsLeft, toasts >>

\* ------------------------------------------------------------ rejections
\* The chain after the catch block for a rejection of request `at` with
\* error err has run.
AfterRejection(ch, at, err) ==
    LET caught == Caught(ch, at, err) IN
    IF at = "captions"
    THEN [caught EXCEPT !.pc = "ended", !.outcome = "captionsRejected"]
    ELSE IF at = "transcript" THEN TranscriptNotReady(caught)
    ELSE IF at = "broll" THEN AfterBRoll(caught, "failed")
    ELSE IF at = "finalVideo"
    THEN [caught EXCEPT !.pc = "timerNavigate",
                        !.outcome = "finalVideoRejected"]
    ELSE FinalVideoNotReady(caught)

\* await generateCaptions(filename) rejects: the outer catch shows a toast.
GenerateCaptionsFail(c, err) ==
    /\ chains[c].pc = "awaitCaptions"
    /\ Rejects
    /\ toasts' = toasts \cup RejectionToasts("captions", err)
    /\ NoRender([chains EXCEPT ![c] = AfterRejection(@, "captions", err)])
    /\ Stay
    /\ UNCHANGED << hasFilename, inst >>

\* await getTranscript(filename) rejects.
GetTranscriptFail(c, err) ==
    LET ch == chains[c] IN
    /\ ch.pc = "awaitTranscript"
    /\ Rejects
    /\ toasts' = toasts \cup RejectionToasts("transcript", err)
    /\ Render(Live(ch),
              [chains EXCEPT ![c] = AfterRejection(ch, "transcript", err)],
              RejectionSteps(steps, ch, "transcript", err), currentStepIndex,
              isBrollProcessing)
    /\ Stay
    /\ UNCHANGED << hasFilename, inst >>

\* await getBRoll(brollPrompt) rejects: catch (brollError).
GetBRollFail(c, err) ==
    LET ch == chains[c] IN
    /\ ch.pc = "awaitBRoll"
    /\ Rejects
    /\ toasts' = toasts \cup RejectionToasts("broll", err)
    /\ Render(Live(ch),
              [chains EXCEPT ![c] = AfterRejection(ch, "broll", err)],
              RejectionSteps(steps, ch, "broll", err), 4, isBrollProcessing)
    /\ Stay
    /\ UNCHANGED << hasFilename, inst >>

\* await generateFinalVideo(filename) rejects: catch (finalVideoError),
\* navigation to the preview after 1500 ms.
GenerateFinalVideoFail(c, err) ==
    LET ch == chains[c] IN
    /\ ch.pc = "awaitFinalVideo"
    /\ Rejects
    /\ toasts' = toasts \cup RejectionToasts("finalVideo", err)
    /\ Render(Live(ch),
              [chains EXCEPT ![c] = AfterRejection(ch, "finalVideo", err)],
              RejectionSteps(steps, ch, "finalVideo", err), currentStepIndex,
              isBrollProcessing)
    /\ Stay
    /\ UNCHANGED << hasFilename, inst >>

\* await getFinalVideoUrl(filename) rejects: progress from the attempts,
\* next check in 3000 ms.
GetFinalVideoUrlFail(c, err) ==
    LET ch == chains[c] IN
    /\ ch.pc = "awaitFinalUrl"
    /\ Rejects
    /\ toasts' = toasts \cup RejectionToasts("finalUrl", err)
    /\ Render(Live(ch),
              [chains EXCEPT ![c] = AfterRejection(ch, "finalUrl", err)],
              RejectionSteps(steps, ch, "finalUrl", err),
              currentStepIndex, isBrollProcessing)
    /\ Stay
    /\ UNCHANGED << hasFilename, inst >>


\* ------------------------------------------------------------ specification
Chain == 1 .. Len(chains)

Next ==
    \/ Mount
    \/ \E c \in Chain : GenerateCaptionsOk(c)
    \/ \E c \in Chain, err \in ErrorDetails : GenerateCaptionsFail(c, err)
    \/ \E c \in Chain, kind \in TranscriptKinds : GetTranscriptOk(c, kind)
    \/ \E c \in Chain, err \in ErrorDetails : GetTranscriptFail(c, err)
    \/ \E c \in Chain : TranscriptTimer(c)
    \/ \E c \in Chain : GetBRollOk(c)
    \/ \E c \in Chain, err \in ErrorDetails : GetBRollFail(c, err)
    \/ \E c \in Chain : GenerateFinalVideoOk(c)
    \/ \E c \in Chain, err \in ErrorDetails : GenerateFinalVideoFail(c, err)
    \/ \E c \in Chain, hasShareId \in BOOLEAN : GetFinalVideoUrlOk(c, hasShareId)
    \/ \E c \in Chain, err \in ErrorDetails : GetFinalVideoUrlFail(c, err)
    \/ \E c \in Chain : FinalVideoTimer(c)
    \/ \E c \in Chain : NavigateTimer(c)

Spec == Init /\ [][Next]_vars


\* A page whose mount effects are run twice for the first render (React 18
\* re-runs the effects of a newly mounted component in development StrictMode).
MountStrict == MountState(2)

InitFaulty ==
    /\ hasFilename = TRUE
    /\ faultsLeft = MaxFaults
    /\ InitPage
    /\ NoOtherPages

NextStrict == Next \/ MountStrict

SpecStrict == InitFaulty /\ [][NextStrict]_vars

\* The "Return to Homepage" button: navigate('/').
ReturnHome ==
    /\ mounted
    /\ Navigate("home", previewNav)
    /\ UNCHANGED << hasFilename, inst, isProcessingStarted, isBrollProcessing,
                    currentStepIndex, steps, overallProgress, toasts, chains,
                    faultsLeft >>

\* The browser's Back: the history entry of /processing, with its
\* location.state, is shown again.
BrowserBack ==
    /\ location \in {"home", "preview"}
    /\ location' = "processing"
    /\ preview' = NoPreview
    /\ UNCHANGED OtherPages
    /\ UNCHANGED << hasFilename, mounted, inst, isProcessingStarted,
                    isBrollProcessing, currentStepIndex, steps,
                    overallProgress, toasts, previewNav, chains, faultsLeft >>

NextRemount == Next \/ ReturnHome \/ BrowserBack

SpecRemount == InitFaulty /\ [][NextRemount]_vars

\* The Processing page and the Preview page it navigates to, or a
\* /preview link opened directly instead of a visit of /processing.
ProcessingVars ==
    << hasFilename, mounted, inst, isProcessingStarted, isBrollProcessing,
       currentStepIndex, steps, overallProgress, toasts, previewNav, chains,
       faultsLeft >>

PreviewIds == {"share_id", "filename", "unknown", "none"}

\* /preview/<id> (or /preview) is opened from a link: no location.state.
OpenPreview(id) ==
    /\ location = "processing"
    /\ inst = 0
    /\ location' = "preview"
    /\ preview' = PreviewOpened(id, "none", FALSE)
    /\ UNCHANGED << ProcessingVars, OtherPages >>

\* getVideoByShareId resolves (.then, .finally) for an id the backend
\* assigned; result is "final", "rendering" or "other".
GetVideoByShareIdOk(result) ==
    /\ preview.pc = "awaitVideo"
    /\ preview.urlId = "share_id"
    /\ preview' = LoadVideo(
           [preview EXCEPT
               !.filename = "uploaded",
               !.finalVideoUrl = (result = "final"),
               !.toasts = IF result = "rendering"
                          THEN @ \cup {"Processing in progress"} ELSE @,
               !.isLoading = FALSE,
               !.pc = "idle",
               !.lookup = "found"])
    /\ UNCHANGED << location, ProcessingVars, OtherPages >>

\* getVideoByShareId rejects (.catch, .finally): the filename is guessed
\* from the id and the legacy look-up of the final video is started.
GetVideoByShareIdFail ==
    /\ preview.pc = "awaitVideo"
    /\ preview' = LoadVideo(
           [preview EXCEPT
               !.filename = "guessed",
               !.isLoading = FALSE,
               !.pc = "awaitLegacy",
               !.lookup = "rejected"])
    /\ UNCHANGED << location, ProcessingVars, OtherPages >>

\* fetch(/api/final_video/<id>.webm) answers ok, for an id that is the
\* name of an uploaded .webm file; status is "completed" or "processing".
LegacyFinalVideoOk(status) ==
    /\ preview.pc = "awaitLegacy"
    /\ preview.urlId = "filename"
    /\ preview' = LoadVideo(
           [preview EXCEPT
               !.finalVideoUrl = (status = "completed"),
               !.toasts = IF status = "completed"
                          THEN @ ELSE @ \cup {"Processing in progress"},
               !.pc = "idle",
               !.lookup = "legacy"])
    /\ UNCHANGED << location, ProcessingVars, OtherPages >>

\* fetch(/api/final_video/<id>.webm) fails.
LegacyFinalVideoFail ==
    /\ preview.pc = "awaitLegacy"
    /\ preview' = [preview EXCEPT
                      !.toasts = @ \cup {"Video not found"},
                      !.pc = "idle",
                      !.lookup = "notFound"]
    /\ UNCHANGED << location, ProcessingVars, OtherPages >>

\* handleCopyLink; info is what getShareIdFromFilename returns when no
\* share id is held.
HandleCopyLink(info) ==
    /\ preview.open
    /\ preview.sharedLink = "none"
    /\ preview' =
           IF preview.filename = "none"
           THEN [preview EXCEPT !.toasts = @ \cup {"Error"}]
           ELSE LET idForSharing == IF preview.shareId # "none"
                                    THEN preview.shareId ELSE info
                IN [preview EXCEPT
                       !.shareId = IF @ = "none" /\ info = "share_id"
                                   THEN info ELSE @,
                       !.sharedLink = idForSharing,
                       !.toasts = @ \cup {"Link copied"}]
    /\ preview' # preview
    /\ UNCHANGED << location, ProcessingVars, OtherPages >>

NextSite ==
    \/ Next
    \/ \E id \in PreviewIds : OpenPreview(id)
    \/ \E result \in {"final", "rendering", "other"} :
           GetVideoByShareIdOk(result)
    \/ GetVideoByShareIdFail
    \/ \E status \in {"completed", "processing"} : LegacyFinalVideoOk(status)
    \/ LegacyFinalVideoFail
    \/ \E info \in {"share_id", "filename"} : HandleCopyLink(info)

SpecSite == Init /\ [][NextSite]_vars


\* ---------------------------------------------------------- the upload pages
UploadPages == {"Upload", "CreateVideo", "Record"}

\* What uploadVideo resolves with: the parsed body of the backend's answer.
Responses ==
    [kind : {"object"}, filename : BOOLEAN, success : BOOLEAN]
        \cup {[kind |-> "null", filename |-> FALSE, success |-> FALSE]}

Rejected == [kind |-> "rejected", filename |-> FALSE, success |-> FALSE]

\* The test handleUpload makes on the response before it navigates; reading
\* a property of null throws, which the catch block handles like a failure.
Accepts(page, response) ==
    /\ response.kind = "object"
    /\ IF page = "CreateVideo" THEN response.success ELSE response.filename

\* Everything /processing holds but the filename it is given.
ProcessingPage ==
    << mounted, inst, isProcessingStarted, isBrollProcessing,
       currentStepIndex, steps, overallProgress, toasts, previewNav, chains,
       faultsLeft >>

\* A video file is chosen (on the Record page: a clip has been recorded).
SelectFile ==
    /\ location = "upload"
    /\ ~upload.selected
    /\ upload' = [upload EXCEPT !.selected = TRUE]
    /\ UNCHANGED << location, ProcessingVars, preview, derivation, record >>

\* handleUpload up to its await; the button is disabled while uploading.
HandleUpload ==
    /\ location = "upload"
    /\ upload.selected
    /\ ~upload.isUploading
    /\ upload.pc = "idle"
    /\ upload' = [upload EXCEPT !.isUploading = TRUE,
                                !.pc = "awaitUpload",
                                !.response = NoResponse]
    /\ UNCHANGED << location, ProcessingVars, preview, derivation, record >>

\* The catch block, and the finally block where there is one.
UploadFailed(response) ==
    [upload EXCEPT !.response = response,
                   !.toasts = @ \cup {"Upload failed"},
                   !.isUploading = FALSE,
                   !.pc = "idle"]

\* uploadVideo resolves: the rest of handleUpload.
UploadVideoOk(response) ==
    /\ upload.pc = "awaitUpload"
    /\ IF Accepts(upload.page, response)
       THEN /\ upload' =
                [upload EXCEPT
                    !.response = response,
                    !.toasts = IF upload.page = "Record"
                               THEN @ ELSE @ \cup {"Upload successful!"},
                    !.navigated = IF response.filename
                                  THEN "filename" ELSE "undefined",
                    !.isUploading = (upload.page = "Record"),
                    !.pc = "done"]
            /\ location' = "processing"
            /\ hasFilename' = response.filename
       ELSE /\ upload' = UploadFailed(response)
            /\ UNCHANGED << location, hasFilename >>
    /\ UNCHANGED << ProcessingPage, preview, derivation, record >>

\* uploadVideo rejects (the request fails or the answer is not ok).
UploadVideoFail ==
    /\ upload.pc = "awaitUpload"
    /\ upload' = UploadFailed(Rejected)
    /\ UNCHANGED << location, ProcessingVars, preview, derivation, record >>

\* A visit of an upload page, and the visit of /processing it leads to.
InitUpload ==
    /\ location = "upload"
    /\ hasFilename = FALSE
    /\ faultsLeft = Unlimited
    /\ mounted = FALSE
    /\ inst = 0
    /\ isProcessingStarted = FALSE
    /\ isBrollProcessing = FALSE
    /\ currentStepIndex = 0
    /\ steps = InitialSteps
    /\ overallProgress = 0
    /\ toasts = {}
    /\ previewNav = NoNav
    /\ chains = << >>
    /\ preview = NoPreview
    /\ derivation = NoDerivation
    /\ record = NoRecord
    /\ upload \in {[NoUpload EXCEPT !.page = p] : p \in UploadPages}

NextUpload ==
    \/ SelectFile
    \/ HandleUpload
    \/ \E response \in Responses : UploadVideoOk(response)
    \/ UploadVideoFail
    \/ Next

SpecUpload == InitUpload /\ [][NextUpload]_vars


\* ---------------------------------------------------------- the Record page
NoTimer == [pending |-> FALSE, stream |-> 0]

\* stream.getTracks().forEach(track => track.stop()), skipped for null.
StopTracks(live, s) == IF s = 0 THEN live ELSE [live EXCEPT ![s] = FALSE]

\* The camera-update effect as run after a render of r: the clean-up of the
\* previous run clears its timeout; unless recording or previewing, a new
\* timeout is set whose setupCamera closes over this render's stream.
CameraUpdateEffect(r) ==
    [r EXCEPT !.timer = IF r.isRecording \/ r.isPreviewing
                        THEN NoTimer
                        ELSE [pending |-> TRUE, stream |-> r.stream]]

\* The number of setupCamera calls made so far.
Setups == Len(record.live) + Len(record.calls) + record.denied

RecordFrame ==
    UNCHANGED << location, ProcessingVars, preview, derivation, upload >>

\* First render and mount effects: setupCamera is called, and the
\* camera-update effect sets its first timeout; both close over stream = null.
RecordMount ==
    /\ location = "record"
    /\ ~record.mounted
    /\ ~record.unmounted
    /\ record' = [record EXCEPT !.mounted = TRUE,
                                !.calls = << 0 >>,
                                !.timer = [pending |-> TRUE, stream |-> 0]]
    /\ RecordFrame

\* The 300 ms timeout fires: setupCamera up to its await of getUserMedia.
DebounceTimer ==
    /\ record.mounted
    /\ record.timer.pending
    /\ Setups < MaxSetups
    /\ record' = [record EXCEPT !.timer = NoTimer,
                                !.calls = Append(@, record.timer.stream)]
    /\ RecordFrame

Without(calls, i) ==
    [k \in 1 .. Len(calls) - 1 |-> IF k < i THEN calls[k] ELSE calls[k + 1]]

\* getUserMedia grants a stream to the i-th waiting call: the rest of
\* setupCamera.  The stream stopped is the one the call's closure holds; a
\* MediaRecorder whose stream has no running track left stops by itself.
GetUserMediaOk(i) ==
    /\ i \in 1 .. Len(record.calls)
    /\ LET old == record.calls[i]
           new == Len(record.live) + 1
           ends == /\ old # 0
                   /\ record.recorder.stream = old
                   /\ record.recorder.state \in {"recording", "paused"}
       IN record' =
              [record EXCEPT
                  !.calls = Without(@, i),
                  !.live = Append(StopTracks(@, old), TRUE),
                  !.srcObject = IF record.mounted THEN new ELSE @,
                  !.stream = IF record.mounted THEN new ELSE @,
                  !.recorder = IF ends THEN [@ EXCEPT !.state = "inactive"]
                               ELSE @,
                  !.stopping = @ \/ ends]
    /\ RecordFrame

\* getUserMedia rejects: the catch block of setupCamera.
GetUserMediaFail(i) ==
    /\ i \in 1 .. Len(record.calls)
    /\ record' = [record EXCEPT
                     !.calls = Without(@, i),
                     !.denied = @ + 1,
                     !.toasts = @ \cup {"Camera access denied"}]
    /\ RecordFrame

\* An aspect-ratio preset or a zoom button: shown only when neither
\* recording nor previewing; the camera-update effect runs again.
ChangeCamera ==
    /\ record.mounted
    /\ ~record.isRecording
    /\ ~record.isPreviewing
    /\ record' = CameraUpdateEffect(record)
    /\ record' # record
    /\ RecordFrame

\* The Record button.
PrepareRecording ==
    /\ record.mounted
    /\ ~record.isRecording
    /\ ~record.isPreviewing
    /\ record' = CameraUpdateEffect(
                     [record EXCEPT !.countdown = 3, !.isRecording = TRUE])
    /\ RecordFrame

\* startRecording, called by the countdown effect of a render of r.
StartRecording(r) ==
    IF r.stream = 0
    THEN r
    ELSE [r EXCEPT !.recorder = [state |-> "recording", stream |-> r.stream]]

\* The countdown's one-second timeout, and the countdown effect of the
\* render that follows it.
CountdownTimer ==
    /\ record.mounted
    /\ record.countdown > 0
    /\ LET r == [record EXCEPT !.countdown = @ - 1]
       IN record' = IF r.countdown = 0 /\ r.isRecording
                    THEN StartRecording(r) ELSE r
    /\ RecordFrame

PauseRecording ==
    /\ record.mounted
    /\ record.isRecording /\ record.countdown = 0 /\ ~record.isPaused
    /\ record.recorder.state = "recording"
    /\ record' = [record EXCEPT !.recorder.state = "paused",
                                !.isPaused = TRUE]
    /\ RecordFrame

ResumeRecording ==
    /\ record.mounted
    /\ record.isRecording /\ record.countdown = 0 /\ record.isPaused
    /\ record.recorder.state = "paused"
    /\ record' = [record EXCEPT !.recorder.state = "recording",
                                !.isPaused = FALSE]
    /\ RecordFrame

\* The Stop button; it does nothing without a recorder that is active.
StopRecording ==
    /\ record.mounted
    /\ record.isRecording /\ record.countdown = 0
    /\ record.recorder.state \in {"recording", "paused"}
    /\ record' = CameraUpdateEffect(
                     [record EXCEPT !.recorder.state = "inactive",
                                    !.stopping = TRUE,
                                    !.isRecording = FALSE,
                                    !.isPaused = FALSE])
    /\ RecordFrame

\* The recorder's stop event: mediaRecorder.onstop.
RecorderOnStop ==
    /\ record.stopping
    /\ record' = IF record.mounted
                 THEN CameraUpdateEffect(
                          [record EXCEPT !.stopping = FALSE,
                                         !.recordedBlob = TRUE,
                                         !.isPreviewing = TRUE,
                                         !.srcObject = 0])
                 ELSE [record EXCEPT !.stopping = FALSE]
    /\ RecordFrame

\* The "Record again" button.
ResetRecording ==
    /\ record.mounted
    /\ record.isPreviewing
    /\ record' = CameraUpdateEffect(
                     [record EXCEPT
                         !.isPreviewing = FALSE,
                         !.recordedBlob = FALSE,
                         !.srcObject = IF record.stream # 0
                                       THEN record.stream ELSE @])
    /\ RecordFrame

\* The page is left: the effects' clean-ups run.  The clean-up of the mount
\* effect belongs to the first render, whose stream is null, so it stops no
\* track; the two timeouts are cleared.
RecordUnmount ==
    /\ record.mounted
    /\ location' = "home"
    /\ record' = [record EXCEPT !.mounted = FALSE,
                                !.unmounted = TRUE,
                                !.live = StopTracks(@, 0),
                                !.timer = NoTimer]
    /\ UNCHANGED << ProcessingVars, preview, derivation, upload >>

\* A visit of /record.
InitRecord ==
    /\ location = "record"
    /\ hasFilename = FALSE
    /\ faultsLeft = Unlimited
    /\ mounted = FALSE
    /\ inst = 0
    /\ isProcessingStarted = FALSE
    /\ isBrollProcessing = FALSE
    /\ currentStepIndex = 0
    /\ steps = InitialSteps
    /\ overallProgress = 0
    /\ toasts = {}
    /\ previewNav = NoNav
    /\ chains = << >>
    /\ preview = NoPreview
    /\ derivation = NoDerivation
    /\ upload = NoUpload
    /\ record = NoRecord

Call == 1 .. Len(record.calls)

NextRecord ==
    \/ RecordMount
    \/ DebounceTimer
    \/ \E i \in Call : GetUserMediaOk(i)
    \/ \E i \in Call : GetUserMediaFail(i)
    \/ ChangeCamera
    \/ PrepareRecording
    \/ CountdownTimer
    \/ PauseRecording
    \/ ResumeRecording
    \/ StopRecording
    \/ RecorderOnStop
    \/ ResetRecording
    \/ RecordUnmount

SpecRecord == InitRecord /\ [][NextRecord]_vars


\* ------------------------------------------------------- the prompt alone
\* The derivation of the B-roll prompt on its own, over transcripts of
\* every shape whose text has up to MaxTextLen characters before its first
\* '.', if it has one.
Text(before, dot, after) ==
    [i \in 1 .. (before + dot * (1 + after)) |->
        IF i = before + 1 THEN "." ELSE "a"]

Texts ==
    {Text(b, d, a) : b \in 0 .. MaxTextLen, d \in {0, 1}, a \in {0, 1}}

TranscriptShapes == {"string", "text", "noText"}

\* s.slice(0, n)
Slice(s, n) == SubSeq(s, 1, Min(n, Len(s)))

\* s.split('.')[0]
FirstSentence(s) ==
    LET dots == {i \in 1 .. Len(s) : s[i] = "."} IN
    IF dots = {} THEN s
    ELSE SubSeq(s, 1, (CHOOSE i \in dots : \A j \in dots : i <= j) - 1)

\* typeof transcript === 'string' ? transcript
\*     : transcript.text || JSON.stringify(transcript).slice(0, 100)
TranscriptText(shape, text) ==
    IF shape = "noText" THEN Slice(text, JsonSliceLen) ELSE text

InitPrompt ==
    /\ hasFilename = TRUE
    /\ faultsLeft = 0
    /\ InitPage
    /\ derivation \in
           {[NoDerivation EXCEPT !.shape = sh, !.text = t] :
                sh \in TranscriptShapes, t \in Texts \ {<< >>}}
              \cup {[NoDerivation EXCEPT !.shape = "string"]}
    /\ upload = NoUpload
    /\ record = NoRecord

\* const brollPrompt = `High quality visual scene representing:
\* ${transcriptText.split('.')[0]}`
DerivePrompt ==
    /\ derivation.shape # "none"
    /\ ~derivation.derived
    /\ derivation' =
           [derivation EXCEPT
               !.derived = TRUE,
               !.template = "High quality visual scene representing: ",
               !.excerpt = FirstSentence(TranscriptText(derivation.shape,
                                                        derivation.text))]
    /\ UNCHANGED << location, ProcessingVars, preview, upload, record >>

SpecPrompt == InitPrompt /\ [][DerivePrompt]_vars


\* ------------------------------------------------------------------ claims
Stages == {"captions", "transcript", "broll", "finalVideo", "finalUrl"}

\* C1: in one run the stages are requested in pipeline order: getTranscript
\* only after generateCaptions resolved, getBRoll only after a getTranscript
\* poll resolved, generateFinalVideo only after getBRoll returned, and no
\* request of a later stage exists while an earlier stage is awaited.
C1_PipelineOrder ==
    \A c \in Chain :
        LET ch == chains[c] IN
        /\ ch.req.transcript > 0 => ch.captionsOk
        /\ ch.req.broll > 0 => ch.gotTranscript
        /\ ch.req.finalVideo > 0 => ch.broll # "none"
        /\ ch.req.finalUrl > 0 => ch.req.finalVideo > 0
        /\ ch.pc = "awaitCaptions" =>
               \A st \in Stages \ {"captions"} : ch.req[st] = 0
        /\ ch.pc \in {"awaitTranscript", "timerTranscript"} =>
               \A st \in {"broll", "finalVideo", "finalUrl"} : ch.req[st] = 0
        /\ ch.pc = "awaitBRoll" =>
               \A st \in {"finalVideo", "finalUrl"} : ch.req[st] = 0
        /\ ch.pc = "awaitFinalVideo" => ch.req.finalUrl = 0

\* A run that went through every stage and reached the preview.
C1_Witness ==
    \E c \in Chain :
        /\ chains[c].pc = "ended"
        /\ chains[c].outcome = "finalVideoReady"
        /\ chains[c].broll = "ok"
        /\ chains[c].req.transcript > 1

\* C2 (as claimed): within one mounted page generateCaptions, getBRoll and
\* generateFinalVideo are each requested at most once, however often the
\* processing effect runs.
RequestsOfInstance(i, st) ==
    LET own == {c \in Chain : chains[c].inst = i}
        Sum[S \in SUBSET own] ==
            IF S = {} THEN 0
            ELSE LET c == CHOOSE x \in S : TRUE
                 IN chains[c].req[st] + Sum[S \ {c}]
    IN Sum[own]

C2_OncePerStage ==
    \A i \in 1 .. inst :
        \A st \in {"captions", "broll", "finalVideo"} :
            RequestsOfInstance(i, st) <= 1

\* C3 (as claimed): for one filename at most one poll chain is in flight,
\* also across an unmount and a new mount, and generateCaptions, getBRoll
\* and generateFinalVideo are not requested a second time.
InFlight == {c \in Chain : chains[c].pc # "ended"}

C3_SingleChainInFlight ==
    /\ Cardinality(InFlight) <= 1
    /\ \A c, d \in Chain :
           c # d => \A st \in {"captions", "broll", "finalVideo"} :
                        chains[c].req[st] + chains[d].req[st] <= 1

\* C4: a rejected getBRoll does not fail the run: generateFinalVideo is
\* requested without a B-roll result, the rendering step is entered, and
\* once a getFinalVideoUrl poll resolved the rendering step is completed.
C4_BRollFailureDegrades ==
    \A c \in Chain :
        LET ch == chains[c] IN
        ch.broll = "failed" =>
            /\ ch.req.finalVideo = 1
            /\ steps[BRoll].status = "error"
            /\ steps[Rendering].status # "waiting"
            /\ ch.outcome \in {"running", "finalVideoRejected",
                               "finalVideoExhausted", "finalVideoReady",
                               "finalVideoReadyNoShareId"}
            /\ ch.gotFinalUrl => steps[Rendering] = Step("completed", 100)

\* A run whose getBRoll was rejected reached the preview with a final video.
C4_Witness ==
    \E c \in Chain :
        /\ chains[c].broll = "failed"
        /\ chains[c].gotFinalUrl
        /\ chains[c].pc = "ended"
        /\ location = "preview"
        /\ previewNav.hasUrl

\* C5 (as claimed): when every getTranscript poll of the budget was rejected
\* the transcription step is marked error and none of the transcription,
\* captions and B-roll steps is marked completed.
C5_ExhaustionFails ==
    \A c \in Chain :
        (chains[c].outcome = "transcriptExhausted" /\ ~chains[c].gotTranscript)
        => /\ steps[Transcription].status = "error"
           /\ \A i \in {Transcription, Captions, BRoll} :
                  steps[i].status # "completed"

C7_CompletedHasFinalVideo ==
    steps[Rendering].status = "completed" =>
        \E c \in Chain : chains[c].gotFinalUrl

\* C8 (as claimed): step statuses change only along waiting -> processing
\* -> completed or error.
StepEdges == { <<"waiting", "processing">>, <<"processing", "completed">>,
               <<"processing", "error">> }

C8_StepEdgesOnly ==
    [][\A i \in StepIds :
          steps'[i].status # steps[i].status =>
              <<steps[i].status, steps'[i].status>> \in StepEdges]_vars

\* C9 (as claimed): a run with no request and no timer pending has reached a
\* terminal outcome: the preview page, or a step marked error.
Quiescent == Chain # {} /\ InFlight = {}

C9_QuiescentIsTerminal ==
    Quiescent =>
        \/ location = "preview"
        \/ \E i \in StepIds : steps[i].status = "error"

\* C10: per run getTranscript is requested at most maxAttempts times and
\* getFinalVideoUrl at most maxFinalVideoAttempts times.
C10_PollsBounded ==
    \A c \in Chain :
        /\ chains[c].req.transcript <= maxAttempts
        /\ chains[c].req.finalUrl <= maxFinalVideoAttempts

\* Both budgets were used to the last poll.
C10_Witness ==
    \E c \in Chain :
        /\ chains[c].req.transcript = maxAttempts
        /\ chains[c].req.finalUrl = maxFinalVideoAttempts

\* The number of requests of stage st made so far, over all runs.
RequestsOf(st) ==
    LET Sum[S \in SUBSET Chain] ==
            IF S = {} THEN 0
            ELSE LET c == CHOOSE x \in S : TRUE
                 IN chains[c].req[st] + Sum[S \ {c}]
    IN Sum[Chain]

TotalRequests ==
    RequestsOf("captions") + RequestsOf("transcript") + RequestsOf("broll")
        + RequestsOf("finalVideo") + RequestsOf("finalUrl")

\* C11 (as claimed): once generateCaptions has been rejected, no step of the
\* page (no run of the processing effect, no timer) makes another backend
\* request for that submission.
C11_FailedRunIsTerminal ==
    [][(\E c \in Chain : chains[c].outcome = "captionsRejected")
           => TotalRequests' = TotalRequests]_vars

\* C14 (as claimed): when a transcript already exists for the file (a
\* getTranscript of an earlier run resolved), starting the processing does
\* not request generateCaptions.
C14_TranscriptReused ==
    [][(\E c \in Chain : chains[c].gotTranscript)
           => RequestsOf("captions")' = RequestsOf("captions")]_vars

C18_ProgressInRange ==
    /\ \A i \in StepIds : steps[i].progress \in 0 .. 100
    /\ overallProgress \in 0 .. 100

\* The transcription step is held at its cap while polling goes on.
C18_Witness ==
    /\ steps[Transcription] = Step("processing", 95)
    /\ \E c \in Chain :
           chains[c].pc = "timerTranscript" /\ chains[c].attempts = maxAttempts

\* C19 (as claimed): every rejection of a backend request is caught and
\* turned into a scheduled retry or a step outcome: while a chain holds a
\* caught error, a retry timer of it is pending or the step of the rejected
\* request is marked error.
C19_RejectionsHandled ==
    \A c \in Chain :
        LET ch == chains[c] IN
        ch.errAt # "none" =>
            \/ ch.pc \in {"timerTranscript", "timerFinalUrl"}
            \/ ch.errAt = "broll" /\ steps[BRoll].status = "error"
            \/ ch.errAt = "finalVideo" /\ steps[Rendering].status = "error"

\* A chain without the detail of the error it holds.
Erased(ch) == [ch EXCEPT !.err = "none"]

\* C20: what the page shows never depends on the content of a backend
\* error. Whenever a request of a chain is rejected, the toasts and steps
\* shown after the rejection and the way the chain goes on are the ones
\* every other error detail at that point would have given, so two runs
\* rejected at the same points show the same; and no toast carries the
\* text of an error.
C20_ShownIndependentOfError ==
    [][/\ toasts' \cap (ErrorDetails \cup {"TypeError"}) = {}
       /\ \A c \in Chain :
            LET ch == chains[c]
                at == chains'[c].errAt
            IN  at \in Stages /\ at # ch.errAt =>
                    \A e \in ErrorDetails :
                        /\ toasts' = toasts \cup RejectionToasts(at, e)
                        /\ Live(ch) => steps' = RejectionSteps(steps, ch, at, e)
                        /\ ~Live(ch) => steps' = steps
                        /\ Erased(chains'[c]) = Erased(AfterRejection(ch, at, e))
      ]_vars

\* generateFinalVideo was rejected for good: the literal title is shown and
\* the rendering step is marked error.
C20_Witness ==
    /\ \E c \in Chain :
           chains[c].errAt = "finalVideo" /\ chains[c].err = "permanent"
    /\ "Rendering Error" \in toasts
    /\ steps[Rendering] = Step("error", 100)

\* C12 (as claimed): when /preview/<id> is opened for an id the backend does
\* not know, getVideoByShareId is rejected and the legacy look-up fails too,
\* the page reports the video as not found and has set no video URL to play
\* for that id.
C12_UnknownIdNotFound ==
    preview.urlId = "unknown" /\ preview.lookup = "notFound" =>
        /\ "Video not found" \in preview.toasts
        /\ preview.videoUrl = "none"

\* C13 (as claimed): the public id of a video is the share_id the backend
\* assigned, on every path: every navigation from Processing to
\* /preview/<id> and every shareable link built by Preview carries it,
\* never an id derived from the filename.
C13_PublicIdIsShareId ==
    /\ previewNav.id \in {"none", "share_id"}
    /\ previewNav # NoNav => preview.sharedLink \in {"none", "share_id"}

\* C23 (as claimed): once the Processing page is unmounted its timers are
\* cleaned up: a timer pending for an instance that is no longer mounted
\* requests neither getTranscript nor getFinalVideoUrl and navigates
\* nowhere.
C23_UnmountCleansTimers ==
    [][\A c \in Chain :
          (/\ ~Live(chains[c])
           /\ chains[c].pc \in {"timerTranscript", "timerFinalUrl",
                                "timerNavigate"}) =>
              /\ chains'[c].req.transcript = chains[c].req.transcript
              /\ chains'[c].req.finalUrl = chains[c].req.finalUrl
              /\ chains'[c] # chains[c] => location' = location
      ]_vars

\* C24 (as claimed): once a getTranscript poll of a run has resolved,
\* getTranscript is not requested again in that run, whatever fails later.
C24_TranscriptPolledOnce ==
    [][\A c \in Chain :
          chains[c].gotTranscript =>
              chains'[c].req.transcript = chains[c].req.transcript
      ]_vars

\* C25: within one run no step's progress ever decreases, and so the
\* overall progress shown never decreases, over any sequence of poll
\* failures, successes and stage transitions.
C25_ProgressMonotone ==
    [][inst' = inst =>
          /\ \A i \in StepIds : steps'[i].progress >= steps[i].progress
          /\ overallProgress' >= overallProgress
      ]_vars

\* Both loops had rejected polls before the run reached the preview: the
\* progress of the rendering step went up from 10 with the attempts.
C25_Witness ==
    /\ steps[Rendering].status = "processing"
    /\ steps[Rendering].progress > 10
    /\ \E c \in Chain :
           /\ chains[c].req.transcript > 1
           /\ chains[c].pc = "timerFinalUrl"
           /\ chains[c].finalVideoAttempts > 1

\* C21 (as claimed): the B-roll prompt is the fixed template followed by a
\* leading excerpt of the transcript text whose length never exceeds the
\* fixed bound, also for a transcript without any '.'.
C21_ExcerptBounded ==
    derivation.derived =>
        /\ derivation.template = "High quality visual scene representing: "
        /\ Len(derivation.excerpt) <= JsonSliceLen

\* C30: on the Preview page the 'Enhanced Video' indicator is on only while
\* the video displayed is the final video, and once a final video URL is
\* known it stays known and is the one displayed: the page never goes back
\* to the original upload, in whatever order the look-ups end.
C30_EnhancedMeansFinal ==
    [][/\ preview'.isProcessedVideo =>
              preview'.videoUrl = "final" /\ preview'.finalVideoUrl
       /\ preview'.finalVideoUrl => preview'.videoUrl = "final"
       /\ (preview.finalVideoUrl /\ preview'.open /\ location' = location) =>
              preview'.finalVideoUrl
      ]_vars

\* The share-id look-up was rejected, the original upload was displayed,
\* then the legacy look-up brought the final video.
C30_Witness ==
    /\ preview.lookup = "legacy"
    /\ "Using original video" \in preview.toasts
    /\ preview.videoUrl = "final"
    /\ preview.isProcessedVideo

\* C22: on each upload page, once uploadVideo has answered: if it resolved
\* with a response that carries a filename the page has navigated to
\* /processing with that filename; if it rejected or the response carries no
\* filename the page has shown "Upload failed", has not navigated and has
\* cleared its uploading flag.
C22_UploadOutcome ==
    upload.response.kind # "none" =>
        IF upload.response.kind = "object" /\ upload.response.filename
        THEN upload.navigated = "filename"
        ELSE /\ "Upload failed" \in upload.toasts
             /\ upload.navigated = "none"
             /\ ~upload.isUploading

\* The camera streams whose tracks are running.
LiveStreams == {s \in 1 .. Len(record.live) : record.live[s]}

\* A recording is in progress (countdown, recording or paused) or a recorded
\* clip is being previewed.
RecordingOrPreviewing == record.isRecording \/ record.isPreviewing

\* C26: while a recording is in progress or a clip is being previewed, no
\* step replaces the Record page's camera stream or stops its tracks.
C26_StreamKeptWhileRecording ==
    [][(record.mounted /\ record'.mounted /\ record.stream # 0
            /\ RecordingOrPreviewing)
        => /\ record'.stream = record.stream
           /\ record'.live[record.stream]]_vars

\* C27: at any time at most one camera stream acquired by the Record page
\* is live.
C27_OneLiveStream == Cardinality(LiveStreams) <= 1

\* C28: when the Record component unmounts, every camera stream that is
\* live at that moment is stopped.
C28_UnmountReleasesCamera ==
    [][(record.mounted /\ ~record'.mounted)
        => \A s \in 1 .. Len(record'.live) : ~record'.live[s]]_vars

\* C29: whenever the Record page is in the recording state (isRecording and
\* countdown 0) a MediaRecorder is recording or paused.
C29_RecorderActiveWhileRecording ==
    (record.mounted /\ record.isRecording /\ record.countdown = 0)
        => record.recorder.state \in {"recording", "paused"}

====
